---------------------------- MODULE Spec2Model ----------------------------
(***************************************************************************)
(* A model of the foodgram backend: the short-link codec                   *)
(* (api/services/short_links.py), the add/remove relation handlers         *)
(* (api/mixins.py, api/views.py), the shopping-list aggregation            *)
(* (RecipeViewSet.download_shopping_cart) and the recipe update            *)
(* (RecipeSerializer.update).                                              *)
(*                                                                         *)
(* A Python str is a sequence of one-character strings.  A database table  *)
(* is a bag of rows (a function from row to row count), so that a          *)
(* duplicate row is a state the model can express; the UNIQUE constraints  *)
(* of recipes/models.py are enforced where the rows are inserted.          *)
(***************************************************************************)
EXTENDS Integers, Sequences, FiniteSets, TLC

VARIABLES
    num,        \* short_links: the integer handed to encode (-1: none)
    short_code, \* short_links: the code string (encode's result or a URL segment)
    decoded,    \* short_links: decode's outcome on short_code
    response,   \* short_links: redirect_short_link's outcome
    recipes,    \* the ids of the rows of the Recipe table
    recipe_name,        \* Recipe.name of each row (the scalar fields of a recipe)
    recipe_ingredients, \* the rows <<recipe, ingredient, amount>> of RecipeIngredient
    recipe_tags,        \* the rows <<recipe, tag>> of RecipeTag
    tables,     \* Favorite, ShoppingCart, Subscription: row <<user, target>> -> row count
    req,        \* per client: the request being served and where its handler stands
    snap        \* history: tables as they were when the latest request was received

codecVars == <<num, short_code, decoded, response>>
recipeVars == <<recipes, recipe_name, recipe_ingredients, recipe_tags>>
relVars == <<tables, req>>
vars == <<num, short_code, decoded, response, recipes, recipe_name,
          recipe_ingredients, recipe_tags, tables, req, snap>>

(***************************************************************************)
(* Bounds of the model.                                                    *)
(***************************************************************************)
\* encode is applied to every integer of 0..MaxNum ...
MaxNum == 40
\* ... and to 36^k - 1, 36^k, 36^k + 1 for k in 1..MaxPow
MaxPow == 4
\* URL segments handed to redirect_short_link have 1..MaxLen characters
MaxLen == 3

\* The characters URL segments are drawn from: alphabet symbols and others.
Chars == {"0", "1", "2", "z", "A", "-"}

\* The primary keys a Recipe row may have.
RecipeIds == {1, 2}

\* The rows of the User table, and the pk values a subscribe URL may carry.
Users == {1, 2}
UserPks == {1, 2, 3}

\* The clients whose requests interleave.
Procs == {1, 2}

\* The rows of the Ingredient table: (name, measurement_unit) is unique; two
\* rows share a name and two share a unit.
Ingredients == {1, 2, 3}
IngredientRow(i) ==
    CASE i = 1 -> [name |-> "flour", measurement_unit |-> "g"]
      [] i = 2 -> [name |-> "flour", measurement_unit |-> "cup"]
      [] i = 3 -> [name |-> "salt", measurement_unit |-> "g"]

\* The rows of the Tag table.
Tags == {1, 2}

\* RecipeIngredient.amount ranges over 1..MaxAmount
MaxAmount == 2

(***************************************************************************)
(* api/services/short_links.py                                             *)
(***************************************************************************)
ALPHABET ==
    << "0", "1", "2", "3", "4", "5", "6", "7", "8", "9",
       "a", "b", "c", "d", "e", "f", "g", "h", "i", "j",
       "k", "l", "m", "n", "o", "p", "q", "r", "s", "t",
       "u", "v", "w", "x", "y", "z" >>

\* str.index of a one-character string: the 0-based position, or ValueError (-1)
ValueError == -1

AlphabetIndex(char) ==
    IF \E i \in 1..Len(ALPHABET) : ALPHABET[i] = char
    THEN (CHOOSE i \in 1..Len(ALPHABET) : ALPHABET[i] = char) - 1
    ELSE ValueError

\* str.zfill for a string with no sign prefix
zfill(s, width) ==
    IF Len(s) >= width THEN s
    ELSE [i \in 1..(width - Len(s)) |-> "0"] \o s

\* (mutant) the loop appending each symbol instead of prepending it
RECURSIVE EncodeLoopAppend(_, _)
EncodeLoopAppend(n, result) ==
    IF n = 0 THEN result
    ELSE EncodeLoopAppend(n \div 36, result \o <<ALPHABET[(n % 36) + 1]>>)

\* the while loop of encode: num, rem = divmod(num, 36); result = ALPHABET[rem] + result
RECURSIVE EncodeLoop(_, _)
EncodeLoop(n, result) ==
    IF n = 0 THEN result
    ELSE EncodeLoop(n \div 36, <<ALPHABET[(n % 36) + 1]>> \o result)

\* (mutant) encode without the zfill(3) padding
encodeNoPad(n) ==
    IF n = 0 THEN <<"0", "0", "0">>
    ELSE EncodeLoop(n, <<>>)

encode(n) ==
    IF n = 0 THEN <<"0", "0", "0">>
    ELSE zfill(EncodeLoop(n, <<>>), 3)

\* the for loop of decode, from character i on; the first character outside
\* the alphabet raises ValueError
RECURSIVE DecodeLoop(_, _, _)
DecodeLoop(code, i, result) ==
    IF i > Len(code) THEN [exc |-> "none", value |-> result]
    ELSE IF AlphabetIndex(code[i]) = ValueError
         THEN [exc |-> "ValueError", value |-> -1]
         ELSE DecodeLoop(code, i + 1, result * 36 + AlphabetIndex(code[i]))

decode(code) == DecodeLoop(code, 1, 0)

\* nothing encoded, decoded or answered yet
NoCode == <<>>
NotDecoded == [exc |-> "unset", value |-> -1]
NoResponse == [status |-> 0, location |-> -1, detail |-> "unset"]

Http404 == [status |-> 404, location |-> -1, detail |-> "short link not found"]

\* (mutant) redirect_short_link catching Recipe.DoesNotExist only
RedirectNoValueError(code, recipe_table) ==
    LET d == decode(code) IN
    IF d.exc = "ValueError"
    THEN [status |-> 500, location |-> -1, detail |-> "ValueError"]
    ELSE IF d.value \notin recipe_table THEN Http404
    ELSE [status |-> 302, location |-> d.value, detail |-> "redirect"]

\* redirect_short_link: the response for a URL segment
RedirectResponse(code, recipe_table) ==
    LET d == decode(code) IN
    IF d.exc = "ValueError" THEN Http404
    ELSE IF d.value \notin recipe_table THEN Http404       \* Recipe.DoesNotExist
    ELSE [status |-> 302, location |-> d.value, detail |-> "redirect"]

(***************************************************************************)
(* The relation tables of recipes/models.py and their handlers:            *)
(* AddRemoveMixin (api/mixins.py), RecipeViewSet.favorite / shopping_cart  *)
(* and UserViewSet.subscribe (api/views.py).                               *)
(*                                                                         *)
(* objects.get_or_create is Django's: a SELECT; when it finds no row, an   *)
(* INSERT; when the INSERT breaks the UNIQUE constraint (IntegrityError),  *)
(* a second SELECT, whose miss re-raises the IntegrityError.  Each         *)
(* statement is one step, so the statements of two requests interleave.    *)
(* filter(...).delete() is one DELETE statement returning the row count.   *)
(***************************************************************************)
Models == {"Favorite", "ShoppingCart", "Subscription"}
Targets == RecipeIds \cup Users
Rows == Users \X Targets

EmptyTables == [m \in Models |-> [row \in Rows |-> 0]]

\* a response: the status, the "errors" message and the serializer of the body
\* ("none": no such part), and the lines of a text attachment
Response(status, errors, data) ==
    [status |-> status, errors |-> errors, data |-> data, content |-> <<>>]

Created(data) == Response(201, "none", data)
BadRequest(message) == Response(400, message, "none")
NoContent == Response(204, "none", "none")
NotFound == Response(404, "none", "none")
\* an exception no handler catches
ServerError == Response(500, "none", "none")

NoPayload == [name |-> "", ingredients |-> <<>>, tags |-> <<>>]

Idle == [pc |-> "idle", model |-> "none", method |-> "none", user |-> 0, pk |-> 0,
         payload |-> NoPayload, ops |-> <<>>, response |-> Response(0, "none", "none")]

Count(model, user, target) == tables[model][<<user, target>>]

\* (mutant) the tables without their UNIQUE constraint
NoUniqueConstraint(model, user, target) == FALSE

\* unique_together = ('user', 'recipe') / ('user', 'author'): the INSERT is refused
UniqueViolation(model, user, target) == Count(model, user, target) > 0

\* recipe = ForeignKey(Recipe): the INSERT of a row for a recipe that is not
\* stored is refused
ForeignKeyViolation(model, target) ==
    model \in {"Favorite", "ShoppingCart"} /\ target \notin recipes

Inserted(model, user, target) ==
    [tables EXCEPT ![model][<<user, target>>] = @ + 1]

Deleted(model, user, target) ==
    [tables EXCEPT ![model][<<user, target>>] = 0]

Op(model, statement) == <<model, statement>>

\* history: when the specification records it, the tables and the recipes as
\* a request finds them
NoSnapshot ==
    [on |-> FALSE, tables |-> EmptyTables, recipes |-> {}, recipe_name |-> <<>>,
     recipe_ingredients |-> {}, recipe_tags |-> {}]
Snapshot ==
    IF snap.on
    THEN [on |-> TRUE, tables |-> tables, recipes |-> recipes, recipe_name |-> recipe_name,
          recipe_ingredients |-> recipe_ingredients, recipe_tags |-> recipe_tags]
    ELSE snap
\* no request is being served: nothing to remember
Forget == IF snap.on THEN [NoSnapshot EXCEPT !.on = TRUE] ELSE snap

Receive(p, model, method, user, pk) ==
    [pc |-> "received", model |-> model, method |-> method, user |-> user, pk |-> pk,
     payload |-> NoPayload, ops |-> <<>>, response |-> Idle.response]

Finish(r, resp) == [r EXCEPT !.pc = "done", !.response = resp]

\* RecipeViewSet.favorite / shopping_cart up to the call of add or remove:
\* self.model is set, get_object_or_404(Recipe, pk=pk) reads the Recipe table
RecipeAction(p, model, method, user, pk) ==
    /\ req[p].pc = "idle"
    /\ LET r == [Receive(p, model, method, user, pk) EXCEPT
                    !.ops = <<Op("Recipe", "get")>>]
       IN  req' = [req EXCEPT ![p] =
                IF pk \notin recipes THEN Finish(r, NotFound)
                ELSE IF method = "POST" THEN [r EXCEPT !.pc = "add_get"]
                ELSE [r EXCEPT !.pc = "remove"]]
    /\ snap' = Snapshot
    /\ UNCHANGED <<tables, recipeVars, codecVars>>

favorite(p, method, user, pk) == RecipeAction(p, "Favorite", method, user, pk)

shopping_cart(p, method, user, pk) == RecipeAction(p, "ShoppingCart", method, user, pk)

\* (mutant) add calling objects.create instead of objects.get_or_create
AddCreateOnly(p) ==
    LET r == req[p]
        q == [r EXCEPT !.ops = Append(@, Op(r.model, "insert"))] IN
    /\ r.pc = "add_get"
    /\ IF UniqueViolation(r.model, r.user, r.pk)
       THEN /\ req' = [req EXCEPT ![p] = Finish(q, ServerError)]
            /\ UNCHANGED tables
       ELSE /\ tables' = Inserted(r.model, r.user, r.pk)
            /\ req' = [req EXCEPT ![p] = Finish(q, Created("RecipeShortSerializer"))]
    /\ UNCHANGED <<recipeVars, codecVars, snap>>

\* AddRemoveMixin.add, get_or_create's first SELECT
AddGet(p) ==
    LET r == req[p] IN
    /\ r.pc = "add_get"
    /\ req' = [req EXCEPT ![p] =
            LET q == [r EXCEPT !.ops = Append(@, Op(r.model, "get"))] IN
            IF Count(r.model, r.user, r.pk) > 0
            THEN Finish(q, BadRequest("recipe already added"))    \* not created
            ELSE [q EXCEPT !.pc = "add_create"]]
    /\ UNCHANGED <<tables, recipeVars, codecVars, snap>>

\* AddRemoveMixin.add, get_or_create's INSERT
AddCreate(p) ==
    LET r == req[p]
        q == [r EXCEPT !.ops = Append(@, Op(r.model, "insert"))] IN
    /\ r.pc = "add_create"
    /\ IF UniqueViolation(r.model, r.user, r.pk) \/ ForeignKeyViolation(r.model, r.pk)
       THEN /\ req' = [req EXCEPT ![p] = [q EXCEPT !.pc = "add_reget"]]
            /\ UNCHANGED tables
       ELSE /\ tables' = Inserted(r.model, r.user, r.pk)
            /\ req' = [req EXCEPT ![p] = Finish(q, Created("RecipeShortSerializer"))]
    /\ UNCHANGED <<recipeVars, codecVars, snap>>

\* AddRemoveMixin.add, get_or_create's SELECT after the IntegrityError
AddReGet(p) ==
    LET r == req[p]
        q == [r EXCEPT !.ops = Append(@, Op(r.model, "get"))] IN
    /\ r.pc = "add_reget"
    /\ req' = [req EXCEPT ![p] =
            IF Count(r.model, r.user, r.pk) > 0
            THEN Finish(q, BadRequest("recipe already added"))
            ELSE Finish(q, ServerError)]                          \* IntegrityError
    /\ UNCHANGED <<tables, recipeVars, codecVars, snap>>

\* (mutant) remove answering 204 whatever the DELETE's row count
RemoveIgnoringCount(p) ==
    LET r == req[p]
        q == [r EXCEPT !.ops = Append(@, Op(r.model, "delete"))] IN
    /\ r.pc = "remove"
    /\ tables' = Deleted(r.model, r.user, r.pk)
    /\ req' = [req EXCEPT ![p] = Finish(q, NoContent)]
    /\ UNCHANGED <<recipeVars, codecVars, snap>>

\* AddRemoveMixin.remove
Remove(p) ==
    LET r == req[p]
        q == [r EXCEPT !.ops = Append(@, Op(r.model, "delete"))]
        deleted == Count(r.model, r.user, r.pk) IN
    /\ r.pc = "remove"
    /\ tables' = Deleted(r.model, r.user, r.pk)
    /\ req' = [req EXCEPT ![p] =
            IF deleted = 0 THEN Finish(q, BadRequest("recipe not in list"))
            ELSE Finish(q, NoContent)]
    /\ UNCHANGED <<recipeVars, codecVars, snap>>

\* (mutant) subscribe without the test request.user == author
subscribeNoSelfTest(p, method, user, pk) ==
    /\ req[p].pc = "idle"
    /\ LET r == [Receive(p, "Subscription", method, user, pk) EXCEPT
                    !.ops = <<Op("User", "get")>>]
       IN  req' = [req EXCEPT ![p] =
                IF pk \notin Users THEN Finish(r, NotFound)
                ELSE IF method = "POST" THEN [r EXCEPT !.pc = "sub_get"]
                ELSE [r EXCEPT !.pc = "sub_delete"]]
    /\ snap' = Snapshot
    /\ UNCHANGED <<tables, recipeVars, codecVars>>

\* UserViewSet.subscribe up to the first statement on Subscription:
\* get_object_or_404(User, pk=pk), then the test request.user == author
subscribe(p, method, user, pk) ==
    /\ req[p].pc = "idle"
    /\ LET r == [Receive(p, "Subscription", method, user, pk) EXCEPT
                    !.ops = <<Op("User", "get")>>]
       IN  req' = [req EXCEPT ![p] =
                IF pk \notin Users THEN Finish(r, NotFound)
                ELSE IF user = pk THEN Finish(r, BadRequest("cannot subscribe to yourself"))
                ELSE IF method = "POST" THEN [r EXCEPT !.pc = "sub_get"]
                ELSE [r EXCEPT !.pc = "sub_delete"]]
    /\ snap' = Snapshot
    /\ UNCHANGED <<tables, recipeVars, codecVars>>

\* subscribe, POST: get_or_create's first SELECT
SubscribeGet(p) ==
    LET r == req[p]
        q == [r EXCEPT !.ops = Append(@, Op("Subscription", "get"))] IN
    /\ r.pc = "sub_get"
    /\ req' = [req EXCEPT ![p] =
            IF Count("Subscription", r.user, r.pk) > 0
            THEN Finish(q, BadRequest("already subscribed"))
            ELSE [q EXCEPT !.pc = "sub_create"]]
    /\ UNCHANGED <<tables, recipeVars, codecVars, snap>>

\* subscribe, POST: get_or_create's INSERT
SubscribeCreate(p) ==
    LET r == req[p]
        q == [r EXCEPT !.ops = Append(@, Op("Subscription", "insert"))] IN
    /\ r.pc = "sub_create"
    /\ IF UniqueViolation("Subscription", r.user, r.pk)
       THEN /\ req' = [req EXCEPT ![p] = [q EXCEPT !.pc = "sub_reget"]]
            /\ UNCHANGED tables
       ELSE /\ tables' = Inserted("Subscription", r.user, r.pk)
            /\ req' = [req EXCEPT ![p] = Finish(q, Created("SubscriptionSerializer"))]
    /\ UNCHANGED <<recipeVars, codecVars, snap>>

\* subscribe, POST: get_or_create's SELECT after the IntegrityError
SubscribeReGet(p) ==
    LET r == req[p]
        q == [r EXCEPT !.ops = Append(@, Op("Subscription", "get"))] IN
    /\ r.pc = "sub_reget"
    /\ req' = [req EXCEPT ![p] =
            IF Count("Subscription", r.user, r.pk) > 0
            THEN Finish(q, BadRequest("already subscribed"))
            ELSE Finish(q, ServerError)]
    /\ UNCHANGED <<tables, recipeVars, codecVars, snap>>

\* subscribe, DELETE
SubscribeDelete(p) ==
    LET r == req[p]
        q == [r EXCEPT !.ops = Append(@, Op("Subscription", "delete"))]
        deleted == Count("Subscription", r.user, r.pk) IN
    /\ r.pc = "sub_delete"
    /\ tables' = Deleted("Subscription", r.user, r.pk)
    /\ req' = [req EXCEPT ![p] =
            IF deleted = 0 THEN Finish(q, BadRequest("not subscribed"))
            ELSE Finish(q, NoContent)]
    /\ UNCHANGED <<recipeVars, codecVars, snap>>

\* the response is sent; the client may send its next request
Respond(p) ==
    /\ req[p].pc = "done"
    /\ req' = [req EXCEPT ![p] = Idle]
    /\ snap' = Forget
    /\ UNCHANGED <<tables, recipeVars, codecVars>>

Methods == {"POST", "DELETE"}

\* a request arrives at client p
Arrive(p) ==
    \E method \in Methods, user \in Users :
        \/ \E pk \in RecipeIds : favorite(p, method, user, pk)
        \/ \E pk \in RecipeIds : shopping_cart(p, method, user, pk)
        \/ \E pk \in UserPks : subscribe(p, method, user, pk)

\* the handler of client p executes its next statement
Step(p) ==
    \/ AddGet(p) \/ AddCreate(p) \/ AddReGet(p) \/ Remove(p)
    \/ SubscribeGet(p) \/ SubscribeCreate(p) \/ SubscribeReGet(p) \/ SubscribeDelete(p)

NoCodec ==
    num = -1 /\ short_code = NoCode /\ decoded = NotDecoded /\ response = NoResponse

InitRel ==
    /\ NoCodec
    /\ recipes = {1}
    /\ recipe_name = [r \in recipes |-> "soup"]
    /\ recipe_ingredients = {<<1, 3, 1>>}
    /\ recipe_tags = {<<1, 1>>}
    /\ tables = EmptyTables
    /\ req = [p \in Procs |-> Idle]
    /\ snap = NoSnapshot

(***************************************************************************)
(* SpecRel: the requests of the clients interleave statement by statement. *)
(***************************************************************************)
NextRel == \E p \in Procs : Arrive(p) \/ Step(p) \/ Respond(p)

SpecRel == InitRel /\ [][NextRel]_vars

(***************************************************************************)
(* SpecSeq: one client, one request at a time; snap records the tables as  *)
(* the request found them.  With no second client an INSERT is never       *)
(* refused after a missed SELECT, so the second SELECT of get_or_create    *)
(* is not a step of this specification.                                    *)
(***************************************************************************)
InitSeq ==
    /\ NoCodec
    /\ recipes = {1}
    /\ recipe_name = [r \in recipes |-> "soup"]
    /\ recipe_ingredients = {<<1, 3, 1>>}
    /\ recipe_tags = {<<1, 1>>}
    /\ tables = EmptyTables
    /\ req = [p \in Procs |-> Idle]
    /\ snap = [NoSnapshot EXCEPT !.on = TRUE]

NextSeq ==
    \/ Arrive(1)
    \/ AddGet(1) \/ AddCreate(1) \/ Remove(1)
    \/ SubscribeGet(1) \/ SubscribeCreate(1) \/ SubscribeDelete(1)
    \/ Respond(1)

SpecSeq == InitSeq /\ [][NextSeq]_vars

(***************************************************************************)
(* SpecRace: every client sends one POST, all for the same relation and    *)
(* the same <<user, target>>, on tables that hold no row for it; the       *)
(* steps are those of the POST branch.                                     *)
(***************************************************************************)
SameRequest(r1, r2) ==
    r1.model = r2.model /\ r1.method = r2.method /\ r1.user = r2.user /\ r1.pk = r2.pk

NextRace ==
    \E p \in Procs :
        \/ /\ Arrive(p)
           /\ req'[p].method = "POST"
           /\ \A q \in Procs \ {p} : req[q].pc # "idle" => SameRequest(req'[p], req[q])
        \/ AddGet(p) \/ AddCreate(p) \/ AddReGet(p)
        \/ SubscribeGet(p) \/ SubscribeCreate(p) \/ SubscribeReGet(p)

SpecRace == InitRel /\ [][NextRace]_vars

(***************************************************************************)
(* RecipeViewSet.download_shopping_cart (api/views.py): one query,         *)
(*   RecipeIngredient.filter(recipe__in_shopping_cart__user=user)          *)
(*     .values(name, measurement_unit).annotate(total=Sum('amount'))       *)
(* that is RecipeIngredient JOIN ShoppingCart ON recipe, GROUP BY the two  *)
(* ingredient columns.  The query has no ORDER BY: the rows come in any    *)
(* order.                                                                  *)
(***************************************************************************)
\* (mutant) the join without the filter on the cart's user
JoinRowsOfAnyUser(user) ==
    UNION { { <<ri, u, k>> : k \in 1..tables["ShoppingCart"][<<u, ri[1]>>] } :
            ri \in recipe_ingredients, u \in Users }

\* the joined rows <<RecipeIngredient row, user, k>>: one for each
\* RecipeIngredient row and each (the k-th) ShoppingCart row of its recipe
\* and the user
JoinRows(user) ==
    UNION { { <<ri, user, k>> : k \in 1..tables["ShoppingCart"][<<user, ri[1]>>] } :
            ri \in recipe_ingredients }

GroupKey(x) ==
    <<IngredientRow(x[1][2]).name, IngredientRow(x[1][2]).measurement_unit>>

\* Sum('amount') over a set of joined rows
RECURSIVE SumAmount(_)
SumAmount(rows) ==
    IF rows = {} THEN 0
    ELSE LET x == CHOOSE x \in rows : TRUE
         IN  x[1][3] + SumAmount(rows \ {x})

\* the rows of the aggregation query
Aggregate(user) ==
    { [ingredient__name |-> g[1], ingredient__measurement_unit |-> g[2],
       total |-> SumAmount({x \in JoinRows(user) : GroupKey(x) = g})] :
      g \in { GroupKey(x) : x \in JoinRows(user) } }

Header == <<"Shopping list:">>

\* f"- {name} ({unit}) - {total}"
Line(item) ==
    <<"-", item.ingredient__name, item.ingredient__measurement_unit, item.total>>

\* the orders a set of rows may come in
Orders(S) ==
    { f \in [1..Cardinality(S) -> S] :
        \A i, j \in 1..Cardinality(S) : f[i] = f[j] => i = j }

download_shopping_cart(p, user) ==
    /\ req[p].pc = "idle"
    /\ \E ingredients \in Orders(Aggregate(user)) :
          LET content == <<Header>> \o [i \in 1..Len(ingredients) |-> Line(ingredients[i])]
              r == [Receive(p, "RecipeIngredient", "GET", user, 0) EXCEPT
                       !.ops = <<Op("RecipeIngredient", "aggregate")>>]
          IN  req' = [req EXCEPT ![p] =
                  Finish(r, [Response(200, "none", "text/plain") EXCEPT
                                !.content = content])]
    /\ snap' = Snapshot
    /\ UNCHANGED <<tables, recipeVars, codecVars>>

(***************************************************************************)
(* Recipe update: RecipeSerializer.validate and update                     *)
(* (api/serializers.py), validate_ingredients and validate_tags            *)
(* (api/validators.py).  The request is the author's (the permission       *)
(* classes are not part of the model).  A raw identifier of the request    *)
(* body is a JSON number or a JSON string of digits: [v, str].  Each call  *)
(* of update on the ORM is one step; ManyRelatedManager.set runs in a      *)
(* transaction of its own.                                                 *)
(***************************************************************************)
Raw(v, str) == [v |-> v, str |-> str]

\* the ids a request body may name: rows that exist, as a number and as a
\* string, and one that does not exist
RawIngredientIds == {Raw(1, FALSE), Raw(2, FALSE), Raw(1, TRUE), Raw(9, FALSE)}
RawTagIds == {Raw(1, FALSE), Raw(2, FALSE), Raw(1, TRUE), Raw(9, FALSE)}
\* the entries of "ingredients" the field validators accept: an existing id
\* with an amount >= 1; and two they refuse: an unknown id, an amount below 1
RawItems ==
    [id : { x \in RawIngredientIds : x.v \in Ingredients }, amount : 1..MaxAmount]
BadRawItems ==
    { [id |-> x, amount |-> 1] : x \in { y \in RawIngredientIds : y.v \notin Ingredients } }
    \cup { [id |-> Raw(1, FALSE), amount |-> 0] }
Names == {"soup", "stew"}

\* lists of at most two entries
ShortLists(S) == {<<>>} \cup { <<x>> : x \in S } \cup { <<x, y>> : x \in S, y \in S }

\* the lists of a request body: every list of at most two entries of Good,
\* and each entry of Bad alone, before and after an entry of Good
BodyLists(Good, Bad) ==
    LET y == CHOOSE y \in Good : TRUE IN
    ShortLists(Good)
    \cup { <<x>> : x \in Bad }
    \cup { <<x, y>> : x \in Bad }
    \cup { <<y, x>> : x \in Bad }

\* a key of the body: absent, or a list
Absent == [present |-> FALSE, list |-> <<>>]
Field(list) == [present |-> TRUE, list |-> list]

Bodies ==
    [name : Names,
     ingredients : {Absent} \cup { Field(l) : l \in BodyLists(RawItems, BadRawItems) },
     tags : {Absent} \cup
            { Field(l) : l \in BodyLists({ x \in RawTagIds : x.v \in Tags },
                                         { x \in RawTagIds : x.v \notin Tags }) }]

HasDuplicates(list) == \E i, j \in 1..Len(list) : i # j /\ list[i] = list[j]

\* the field validators: RecipeIngredientWriteSerializer (id an existing
\* Ingredient, amount >= 1) and PrimaryKeyRelatedField(queryset=Tag.objects.all())
FieldErrors(body) ==
    \/ \E i \in 1..Len(body.ingredients.list) :
          \/ body.ingredients.list[i].id.v \notin Ingredients
          \/ body.ingredients.list[i].amount < 1
    \/ \E i \in 1..Len(body.tags.list) : body.tags.list[i].v \notin Tags

\* validate_ingredients on initial_data['ingredients']: the ids are compared raw
validate_ingredients(value) ==
    IF value = <<>> THEN "recipe needs at least one ingredient"
    ELSE IF HasDuplicates([i \in 1..Len(value) |-> value[i].id])
    THEN "ingredients must not repeat"
    ELSE "none"

\* validate_tags on initial_data['tags']
validate_tags(value) ==
    IF value = <<>> THEN "recipe needs at least one tag"
    ELSE IF HasDuplicates(value) THEN "tags must not repeat"
    ELSE "none"

\* RecipeSerializer.validate: the error, or "none"
validate(body) ==
    IF ~body.ingredients.present THEN "ingredients: required"
    ELSE IF ~body.tags.present THEN "tags: required"
    ELSE IF validate_ingredients(body.ingredients.list) # "none"
    THEN validate_ingredients(body.ingredients.list)
    ELSE validate_tags(body.tags.list)

\* serializer.is_valid: the field validators, then validate
ValidationError(body) ==
    IF FieldErrors(body) THEN "field error" ELSE validate(body)

\* validated_data: ids parsed to integers
ValidatedData(body) ==
    [name |-> body.name,
     ingredients |-> [i \in 1..Len(body.ingredients.list) |->
                        [id |-> body.ingredients.list[i].id.v,
                         amount |-> body.ingredients.list[i].amount]],
     tags |-> [i \in 1..Len(body.tags.list) |-> body.tags.list[i].v]]

\* a payload that names no ingredient twice and no tag twice, has an
\* ingredient and a tag, and no amount below 1
WellFormed(payload) ==
    /\ payload.ingredients # <<>>
    /\ payload.tags # <<>>
    /\ ~HasDuplicates([i \in 1..Len(payload.ingredients) |-> payload.ingredients[i].id])
    /\ ~HasDuplicates(payload.tags)
    /\ \A i \in 1..Len(payload.ingredients) : payload.ingredients[i].amount >= 1

\* the update of a recipe that does not exist: get_object raises Http404
update_not_found(p, user, pk) ==
    /\ req[p].pc = "idle"
    /\ pk \notin recipes
    /\ req' = [req EXCEPT ![p] =
            Finish([Receive(p, "Recipe", "PATCH", user, pk) EXCEPT
                       !.ops = <<Op("Recipe", "get")>>], NotFound)]
    /\ snap' = Snapshot
    /\ UNCHANGED <<tables, recipeVars, codecVars>>

\* the update of an existing recipe up to serializer.save(): get_object, is_valid
partial_update(p, user, pk, body) ==
    /\ req[p].pc = "idle"
    /\ pk \in recipes
    /\ LET r == [Receive(p, "Recipe", "PATCH", user, pk) EXCEPT
                    !.ops = <<Op("Recipe", "get")>>]
       IN  req' = [req EXCEPT ![p] =
                IF ValidationError(body) # "none"
                THEN Finish(r, BadRequest(ValidationError(body)))
                ELSE [r EXCEPT !.pc = "update_save", !.payload = ValidatedData(body)]]
    /\ snap' = Snapshot
    /\ UNCHANGED <<tables, recipeVars, codecVars>>

\* RecipeSerializer.update: instance = super().update(instance, validated_data)
UpdateSave(p) ==
    LET r == req[p] IN
    /\ r.pc = "update_save"
    /\ recipe_name' = [recipe_name EXCEPT ![r.pk] = r.payload.name]
    /\ req' = [req EXCEPT ![p] = [r EXCEPT !.pc = "update_tags",
                                           !.ops = Append(@, Op("Recipe", "update"))]]
    /\ UNCHANGED <<recipes, recipe_ingredients, recipe_tags, tables, codecVars, snap>>

\* RecipeSerializer.update: instance.tags.set(tags_data)
UpdateTags(p) ==
    LET r == req[p] IN
    /\ r.pc = "update_tags"
    /\ recipe_tags' = { row \in recipe_tags : row[1] # r.pk }
                      \cup { <<r.pk, r.payload.tags[i]>> : i \in 1..Len(r.payload.tags) }
    /\ req' = [req EXCEPT ![p] = [r EXCEPT !.pc = "update_delete",
                                           !.ops = Append(@, Op("RecipeTag", "set"))]]
    /\ UNCHANGED <<recipes, recipe_name, recipe_ingredients, tables, codecVars, snap>>

\* (mutant) update without instance.recipeingredient_set.all().delete()
UpdateKeepIngredients(p) ==
    LET r == req[p] IN
    /\ r.pc = "update_delete"
    /\ req' = [req EXCEPT ![p] = [r EXCEPT !.pc = "update_create"]]
    /\ UNCHANGED <<recipeVars, tables, codecVars, snap>>

\* RecipeSerializer.update: instance.recipeingredient_set.all().delete()
UpdateDeleteIngredients(p) ==
    LET r == req[p] IN
    /\ r.pc = "update_delete"
    /\ recipe_ingredients' = { row \in recipe_ingredients : row[1] # r.pk }
    /\ req' = [req EXCEPT ![p] = [r EXCEPT !.pc = "update_create",
                                           !.ops = Append(@, Op("RecipeIngredient", "delete"))]]
    /\ UNCHANGED <<recipes, recipe_name, recipe_tags, tables, codecVars, snap>>

\* unique_together = ('recipe', 'ingredient'): the bulk INSERT is refused
\* when two of its rows, or one of them and a stored row, share the pair
IngredientUniqueViolation(pk, items) ==
    \/ \E i, j \in 1..Len(items) : i # j /\ items[i].id = items[j].id
    \/ \E i \in 1..Len(items), row \in recipe_ingredients :
          row[1] = pk /\ row[2] = items[i].id

\* RecipeSerializer.update: RecipeIngredient.objects.bulk_create([...])
UpdateBulkCreate(p) ==
    LET r == req[p]
        items == r.payload.ingredients
        q == [r EXCEPT !.ops = Append(@, Op("RecipeIngredient", "bulk_create"))] IN
    /\ r.pc = "update_create"
    /\ IF IngredientUniqueViolation(r.pk, items)
       THEN /\ req' = [req EXCEPT ![p] = Finish(q, ServerError)]   \* IntegrityError
            /\ UNCHANGED recipe_ingredients
       ELSE /\ recipe_ingredients' = recipe_ingredients \cup
                    { <<r.pk, items[i].id, items[i].amount>> : i \in 1..Len(items) }
            /\ req' = [req EXCEPT ![p] =
                    Finish(q, Response(200, "none", "RecipeSerializer"))]
    /\ UNCHANGED <<recipes, recipe_name, recipe_tags, tables, codecVars, snap>>

UpdateStep(p) ==
    \/ UpdateSave(p) \/ UpdateTags(p) \/ UpdateDeleteIngredients(p) \/ UpdateBulkCreate(p)

(***************************************************************************)
(* Recipe creation: ModelViewSet.create (is_valid, perform_create) and     *)
(* RecipeSerializer.create.  The Recipe table gives a new row the next id. *)
(***************************************************************************)
NextRecipeId == IF recipes = {} THEN 1 ELSE (CHOOSE r \in recipes : \A q \in recipes : q <= r) + 1

\* the creation of a recipe up to serializer.save(): is_valid
create(p, user, body) ==
    /\ req[p].pc = "idle"
    /\ NextRecipeId \in RecipeIds
    /\ LET r == Receive(p, "Recipe", "POST", user, 0)
       IN  req' = [req EXCEPT ![p] =
                IF ValidationError(body) # "none"
                THEN Finish(r, BadRequest(ValidationError(body)))
                ELSE [r EXCEPT !.pc = "create_save", !.payload = ValidatedData(body)]]
    /\ snap' = Snapshot
    /\ UNCHANGED <<tables, recipeVars, codecVars>>

\* RecipeSerializer.create: recipe = Recipe.objects.create(**validated_data)
CreateSave(p) ==
    LET r == req[p]
        id == NextRecipeId IN
    /\ r.pc = "create_save"
    /\ recipes' = recipes \cup {id}
    /\ recipe_name' = [x \in recipes \cup {id} |->
                          IF x = id THEN r.payload.name ELSE recipe_name[x]]
    /\ req' = [req EXCEPT ![p] = [r EXCEPT !.pc = "create_tags", !.pk = id,
                                           !.ops = Append(@, Op("Recipe", "insert"))]]
    /\ UNCHANGED <<recipe_ingredients, recipe_tags, tables, codecVars, snap>>

\* RecipeSerializer.create: recipe.tags.set(tags_data)
CreateTags(p) ==
    LET r == req[p] IN
    /\ r.pc = "create_tags"
    /\ recipe_tags' = { row \in recipe_tags : row[1] # r.pk }
                      \cup { <<r.pk, r.payload.tags[i]>> : i \in 1..Len(r.payload.tags) }
    /\ req' = [req EXCEPT ![p] = [r EXCEPT !.pc = "create_bulk",
                                           !.ops = Append(@, Op("RecipeTag", "set"))]]
    /\ UNCHANGED <<recipes, recipe_name, recipe_ingredients, tables, codecVars, snap>>

\* RecipeSerializer.create: RecipeIngredient.objects.bulk_create([...])
CreateBulkCreate(p) ==
    LET r == req[p]
        items == r.payload.ingredients
        q == [r EXCEPT !.ops = Append(@, Op("RecipeIngredient", "bulk_create"))] IN
    /\ r.pc = "create_bulk"
    /\ IF IngredientUniqueViolation(r.pk, items)
       THEN /\ req' = [req EXCEPT ![p] = Finish(q, ServerError)]   \* IntegrityError
            /\ UNCHANGED recipe_ingredients
       ELSE /\ recipe_ingredients' = recipe_ingredients \cup
                    { <<r.pk, items[i].id, items[i].amount>> : i \in 1..Len(items) }
            /\ req' = [req EXCEPT ![p] = Finish(q, Created("RecipeSerializer"))]
    /\ UNCHANGED <<recipes, recipe_name, recipe_tags, tables, codecVars, snap>>

CreateStep(p) == CreateSave(p) \/ CreateTags(p) \/ CreateBulkCreate(p)

(***************************************************************************)
(* Recipe deletion: ModelViewSet.destroy (get_object, perform_destroy) and *)
(* Model.delete.  Favorite, ShoppingCart, RecipeTag and RecipeIngredient   *)
(* refer to Recipe with on_delete=CASCADE (recipes/models.py): delete()    *)
(* removes their rows and the Recipe row in one transaction.               *)
(***************************************************************************)
destroy(p, user, pk) ==
    /\ req[p].pc = "idle"
    /\ LET r == [Receive(p, "Recipe", "DELETE", user, pk) EXCEPT
                    !.ops = <<Op("Recipe", "get")>>]
       IN  req' = [req EXCEPT ![p] =
                IF pk \notin recipes THEN Finish(r, NotFound)
                ELSE [r EXCEPT !.pc = "destroy_delete"]]
    /\ snap' = Snapshot
    /\ UNCHANGED <<tables, recipeVars, codecVars>>

\* the relation tables without the rows of recipe pk
Cascaded(pk) ==
    [m \in Models |->
        [row \in Rows |->
            IF m \in {"Favorite", "ShoppingCart"} /\ row[2] = pk THEN 0 ELSE tables[m][row]]]

\* (mutant) delete without the cascade: the Recipe row alone is removed
DestroyRecipeRowOnly(p) ==
    LET r == req[p] IN
    /\ r.pc = "destroy_delete"
    /\ recipes' = recipes \ {r.pk}
    /\ recipe_name' = [x \in recipes \ {r.pk} |-> recipe_name[x]]
    /\ req' = [req EXCEPT ![p] =
            Finish([r EXCEPT !.ops = Append(@, Op("Recipe", "delete"))], NoContent)]
    /\ UNCHANGED <<recipe_ingredients, recipe_tags, tables, codecVars, snap>>

\* instance.delete()
DestroyDelete(p) ==
    LET r == req[p] IN
    /\ r.pc = "destroy_delete"
    /\ tables' = Cascaded(r.pk)
    /\ recipe_ingredients' = { row \in recipe_ingredients : row[1] # r.pk }
    /\ recipe_tags' = { row \in recipe_tags : row[1] # r.pk }
    /\ recipes' = recipes \ {r.pk}
    /\ recipe_name' = [x \in recipes \ {r.pk} |-> recipe_name[x]]
    /\ req' = [req EXCEPT ![p] =
            Finish([r EXCEPT !.ops = Append(@, Op("Recipe", "delete"))], NoContent)]
    /\ UNCHANGED <<codecVars, snap>>

(***************************************************************************)
(* SpecDelete: two recipes that share an ingredient.  Client 1 sends       *)
(* favorite, shopping_cart and download_shopping_cart requests, client 2   *)
(* deletes recipes; their statements interleave.                           *)
(***************************************************************************)
InitDelete ==
    /\ NoCodec
    /\ recipes = RecipeIds
    /\ recipe_name = [r \in recipes |-> "soup"]
    /\ recipe_ingredients = {<<1, 1, 1>>, <<1, 3, 2>>, <<2, 1, 2>>}
    /\ recipe_tags = {<<r, 1>> : r \in recipes}
    /\ tables = EmptyTables
    /\ req = [p \in Procs |-> Idle]
    /\ snap = NoSnapshot

NextDelete ==
    \/ \E method \in Methods, user \in Users, pk \in RecipeIds :
           favorite(1, method, user, pk)
    \/ \E method \in Methods, user \in Users, pk \in RecipeIds :
           shopping_cart(1, method, user, pk)
    \/ \E user \in Users : download_shopping_cart(1, user)
    \/ AddGet(1) \/ AddCreate(1) \/ AddReGet(1) \/ Remove(1)
    \/ \E pk \in RecipeIds : destroy(2, 1, pk)
    \/ DestroyDelete(2)
    \/ Respond(1) \/ Respond(2)

SpecDelete == InitDelete /\ [][NextDelete]_vars

(***************************************************************************)
(* SpecCart: two recipes with any ingredient lists; one client sends       *)
(* shopping_cart and download_shopping_cart requests for either user.      *)
(***************************************************************************)
\* the ingredient rows a valid recipe may have: one or two ingredients
IngredientLists ==
    { l \in ShortLists(Ingredients \X (1..MaxAmount)) :
        l # <<>> /\ \A i, j \in 1..Len(l) : i # j => l[i][1] # l[j][1] }

RowsFor(recipe, l) == { <<recipe, l[i][1], l[i][2]>> : i \in 1..Len(l) }

InitCart ==
    /\ NoCodec
    /\ recipes = RecipeIds
    /\ recipe_name = [r \in recipes |-> "soup"]
    /\ \E l1, l2 \in IngredientLists :
          recipe_ingredients = RowsFor(1, l1) \cup RowsFor(2, l2)
    /\ recipe_tags = {<<r, 1>> : r \in recipes}
    /\ tables = EmptyTables
    /\ req = [p \in Procs |-> Idle]
    /\ snap = NoSnapshot

NextCart ==
    \/ \E method \in Methods, user \in Users, pk \in RecipeIds :
           shopping_cart(1, method, user, pk)
    \/ \E user \in Users : download_shopping_cart(1, user)
    \/ AddGet(1) \/ AddCreate(1) \/ Remove(1)
    \/ Respond(1)

SpecCart == InitCart /\ [][NextCart]_vars

(***************************************************************************)
(* SpecUpdate: one client sends update requests for recipe 1, which starts *)
(* with ingredient 3 and tag 1.                                            *)
(***************************************************************************)
NextUpdate ==
    \/ \E pk \in RecipeIds : update_not_found(1, 1, pk)
    \/ /\ req[1].pc = "idle"
       /\ \E pk \in RecipeIds, body \in Bodies : partial_update(1, 1, pk, body)
    \/ UpdateStep(1)
    \/ Respond(1)

SpecUpdate == InitRel /\ [][NextUpdate]_vars

(***************************************************************************)
(* SpecUpdateRace: each client sends one update of recipe 1, with tag 1    *)
(* and a well-formed ingredient list of its own; the statements of the two *)
(* updates interleave.                                                     *)
(***************************************************************************)
RaceBodies ==
    { body \in Bodies :
        /\ ValidationError(body) = "none"
        /\ WellFormed(ValidatedData(body))
        /\ body.tags = Field(<<Raw(1, FALSE)>>) }

NextUpdateRace ==
    \E p \in Procs :
        \/ /\ req[p].pc = "idle"
           /\ \E body \in RaceBodies : partial_update(p, 1, 1, body)
        \/ UpdateStep(p)

SpecUpdateRace == InitRel /\ [][NextUpdateRace]_vars

(***************************************************************************)
(* SpecRecipe: on an empty Recipe table one client sends create requests   *)
(* until a Recipe row is stored, and update requests, one at a time; snap  *)
(* records the recipes as each request finds them.                         *)
(***************************************************************************)
InitRecipe ==
    /\ NoCodec
    /\ recipes = {}
    /\ recipe_name = [r \in recipes |-> "soup"]
    /\ recipe_ingredients = {}
    /\ recipe_tags = {}
    /\ tables = EmptyTables
    /\ req = [p \in Procs |-> Idle]
    /\ snap = [NoSnapshot EXCEPT !.on = TRUE]

NextRecipe ==
    \/ /\ req[1].pc = "idle"
       /\ recipes = {}
       /\ \E body \in Bodies : create(1, 1, body)
    \/ \E pk \in RecipeIds : update_not_found(1, 1, pk)
    \/ /\ req[1].pc = "idle"
       /\ \E pk \in RecipeIds, body \in Bodies : partial_update(1, 1, pk, body)
    \/ CreateStep(1)
    \/ UpdateStep(1)
    \/ Respond(1)

SpecRecipe == InitRecipe /\ [][NextRecipe]_vars

(***************************************************************************)
(* The inputs of the codec.                                                *)
(***************************************************************************)
RECURSIVE Pow36(_)
Pow36(k) == IF k = 0 THEN 1 ELSE 36 * Pow36(k - 1)

Nums == (0..MaxNum) \cup { Pow36(k) + d : k \in 1..MaxPow, d \in {-1, 0, 1} }

Strings == UNION { [1..n -> Chars] : n \in 1..MaxLen }

InitCodec ==
    /\ recipes \in SUBSET RecipeIds
    /\ recipe_name = [r \in recipes |-> "soup"]
    /\ recipe_ingredients = {<<r, 3, 1>> : r \in recipes}
    /\ recipe_tags = {<<r, 1>> : r \in recipes}
    /\ tables = EmptyTables
    /\ req = [p \in Procs |-> Idle]
    /\ snap = NoSnapshot
    /\ \/ num \in Nums /\ short_code = NoCode
       \/ num = -1 /\ short_code \in Strings
    /\ decoded = NotDecoded
    /\ response = NoResponse

\* get_link's call encode(id), and encode on any non-negative integer
Encode ==
    /\ num >= 0
    /\ short_code = NoCode
    /\ short_code' = encode(num)
    /\ UNCHANGED <<num, decoded, response, recipeVars, relVars, snap>>

Decode ==
    /\ short_code # NoCode
    /\ decoded = NotDecoded
    /\ decoded' = decode(short_code)
    /\ UNCHANGED <<num, short_code, response, recipeVars, relVars, snap>>

RedirectShortLink ==
    /\ short_code # NoCode
    /\ response = NoResponse
    /\ response' = RedirectResponse(short_code, recipes)
    /\ UNCHANGED <<num, short_code, decoded, recipeVars, relVars, snap>>

NextCodec == Encode \/ Decode \/ RedirectShortLink

SpecCodec == InitCodec /\ [][NextCodec]_vars

(***************************************************************************)
(* Claims about the codec, checked under SpecCodec.                        *)
(***************************************************************************)
Encoded == num >= 0 /\ short_code # NoCode

AlphabetChars == { ALPHABET[i] : i \in 1..Len(ALPHABET) }

HasForeignChar(code) == \E i \in 1..Len(code) : code[i] \notin AlphabetChars

\* the value of a symbol string read as a base-36 numeral, most significant first
RECURSIVE PositionalValue(_)
PositionalValue(code) ==
    IF code = <<>> THEN 0
    ELSE AlphabetIndex(code[Len(code)])
         + 36 * PositionalValue(SubSeq(code, 1, Len(code) - 1))

\* C1: decode(encode(n)) = n for every non-negative n, also for 0 and for
\* n >= 36^3 whose code is wider than 3 symbols; decode("000") = 0.
C1_RoundTrip ==
    /\ (Encoded /\ decoded # NotDecoded)
            => decoded = [exc |-> "none", value |-> num]
    /\ (short_code = <<"0", "0", "0">> /\ decoded # NotDecoded)
            => decoded = [exc |-> "none", value |-> 0]

C1_Witness ==
    /\ Encoded
    /\ num >= Pow36(3)
    /\ Len(short_code) > 3
    /\ decoded = [exc |-> "none", value |-> num]

\* C2: encode(n) is the base-36 numeral of n over 0-9a-z, most significant
\* symbol first, left-padded with "0" to at least 3 symbols, never truncated:
\* encode(0) = "000", encode(35) = "00z", encode(36) = "010", and from 36^3 on
\* the code has more than 3 symbols and no leading "0".
C2_EncodeBase36 ==
    Encoded =>
        /\ Len(short_code) >= 3
        /\ ~HasForeignChar(short_code)
        /\ PositionalValue(short_code) = num
        /\ (Len(short_code) > 3 => short_code[1] # "0")
        /\ (num >= Pow36(3) => Len(short_code) > 3 /\ short_code[1] # "0")
        /\ (num < Pow36(3) => Len(short_code) = 3)
        /\ (num = 0 => short_code = <<"0", "0", "0">>)
        /\ (num = 35 => short_code = <<"0", "0", "z">>)
        /\ (num = 36 => short_code = <<"0", "1", "0">>)

C2_Witness ==
    /\ Encoded
    /\ num = Pow36(3)
    /\ short_code = <<"1", "0", "0", "0">>

\* C3: decode fails with ValueError (InvalidCode) on every string holding a
\* character outside 0-9a-z, wherever it stands, and redirect_short_link
\* answers it exactly as it answers a well-formed code of an unknown recipe:
\* "short link not found" (404).
C3_InvalidCodeIsNotFound ==
    /\ (HasForeignChar(short_code) /\ decoded # NotDecoded)
            => decoded.exc = "ValueError"
    /\ (HasForeignChar(short_code) /\ response # NoResponse)
            => response = Http404
    /\ (/\ short_code # NoCode
        /\ ~HasForeignChar(short_code)
        /\ PositionalValue(short_code) \notin recipes
        /\ response # NoResponse)
            => response = Http404

\* a foreign character in the last position, after symbols that decode, and
\* answered 404
C3_Witness ==
    /\ Len(short_code) = 3
    /\ ~HasForeignChar(SubSeq(short_code, 1, 2))
    /\ short_code[3] \notin AlphabetChars
    /\ decoded.exc = "ValueError"
    /\ response = Http404

(***************************************************************************)
(* Claims about the relation handlers.                                     *)
(***************************************************************************)
\* the request reaches add / remove: its target exists and, for a
\* subscription, is not the subscriber
ReachesRelation(r) ==
    \/ r.model \in {"Favorite", "ShoppingCart"} /\ r.pk \in recipes
    \/ r.model = "Subscription" /\ r.pk \in Users /\ r.pk # r.user

Answered(r, method) == r.pc = "done" /\ r.method = method /\ ReachesRelation(r)

IsConflict(resp) == resp.status = 400 /\ resp.errors # "none" /\ resp.data = "none"

\* C4 (SpecSeq): an add for a pair with no record creates exactly one record
\* and answers 201; an add for a pair that has a record answers 400 with an
\* errors body, creates nothing, changes no record, and the count stays 1.
C4_SequentialAdd ==
    LET r == req[1] IN
    Answered(r, "POST") =>
        IF snap.tables[r.model][<<r.user, r.pk>>] = 0
        THEN /\ r.response.status = 201
             /\ r.response.errors = "none"
             /\ tables = [snap.tables EXCEPT ![r.model][<<r.user, r.pk>>] = 1]
        ELSE /\ IsConflict(r.response)
             /\ tables = snap.tables
             /\ Count(r.model, r.user, r.pk) = 1

\* the second add of a pair, for a subscription
C4_Witness ==
    LET r == req[1] IN
    /\ Answered(r, "POST")
    /\ r.model = "Subscription"
    /\ snap.tables["Subscription"][<<r.user, r.pk>>] = 1
    /\ IsConflict(r.response)
    /\ tables = snap.tables

AllAnswered == \A p \in Procs : req[p].pc = "done"

\* C5 (SpecRace): concurrent adds of one pair that had no record leave exactly
\* one record; exactly one request answers 201 and every other one 400; none
\* ends in a server error and no duplicate row ever exists.
C5_ConcurrentAdd ==
    /\ \A m \in Models, row \in Rows : tables[m][row] <= 1
    /\ \A p \in Procs : req[p].response.status # 500
    /\ (AllAnswered /\ \A p \in Procs : ReachesRelation(req[p])) =>
          LET r == req[CHOOSE p \in Procs : TRUE] IN
          /\ Count(r.model, r.user, r.pk) = 1
          /\ Cardinality({p \in Procs : req[p].response.status = 201}) = 1
          /\ \A p \in Procs :
                req[p].response.status # 201 => IsConflict(req[p].response)

\* the loser's INSERT was refused by the constraint, and it answered 400
C5_Witness ==
    /\ AllAnswered
    /\ \E p \in Procs :
          /\ ReachesRelation(req[p])
          /\ Len(req[p].ops) = 4
          /\ req[p].ops[3] = Op(req[p].model, "insert")
          /\ req[p].ops[4] = Op(req[p].model, "get")
          /\ IsConflict(req[p].response)

\* C6 (SpecSeq): a remove of an existing record deletes it and answers 204
\* with no body; a remove of a pair with no record answers 400 with an errors
\* body and leaves the stored records as they were.
C6_SequentialRemove ==
    LET r == req[1] IN
    Answered(r, "DELETE") =>
        IF snap.tables[r.model][<<r.user, r.pk>>] > 0
        THEN /\ r.response = NoContent
             /\ tables = [snap.tables EXCEPT ![r.model][<<r.user, r.pk>>] = 0]
        ELSE /\ IsConflict(r.response)
             /\ tables = snap.tables

\* a remove that found no record, on tables that hold other records
C6_Witness ==
    LET r == req[1] IN
    /\ Answered(r, "DELETE")
    /\ snap.tables[r.model][<<r.user, r.pk>>] = 0
    /\ IsConflict(r.response)
    /\ tables = snap.tables
    /\ \E m \in Models, row \in Rows : tables[m][row] = 1

\* C7 (SpecRel): under every interleaving of favorite, shopping_cart and
\* subscribe requests each relation holds at most one record per
\* <<subject, target>>, and no Subscription has user = author.
C7_AtMostOneRecord ==
    /\ \A m \in Models, row \in Rows : tables[m][row] <= 1
    /\ \A u \in Users : tables["Subscription"][<<u, u>>] = 0

\* an INSERT was refused by the constraint while a self-subscription was
\* answered
C7_Witness ==
    \E p, q \in Procs :
        /\ req[p].pc \in {"add_reget", "sub_reget"}
        /\ Count(req[p].model, req[p].user, req[p].pk) = 1
        /\ req[q].pc = "done"
        /\ req[q].model = "Subscription"
        /\ req[q].user = req[q].pk

SelfSubscribe(r) == r.pc = "done" /\ r.model = "Subscription" /\ r.user = r.pk

\* C8 as stated (SpecSeq): a self-subscription is rejected before any storage
\* operation of the request, a read included.
C8_NoStorageBeforeRejection ==
    LET r == req[1] IN
    SelfSubscribe(r) =>
        /\ r.response = BadRequest("cannot subscribe to yourself")
        /\ r.ops = <<>>
        /\ tables = snap.tables

\* C8, amended (SpecSeq): a self-subscription is rejected with its own 400
\* message before any statement on the Subscription table; the one storage
\* operation of the request is the lookup of the target user.
C8_NoSubscriptionStatementBeforeRejection ==
    LET r == req[1] IN
    SelfSubscribe(r) =>
        /\ r.response = BadRequest("cannot subscribe to yourself")
        /\ r.response # BadRequest("already subscribed")
        /\ r.response # BadRequest("not subscribed")
        /\ r.ops = <<Op("User", "get")>>
        /\ tables = snap.tables

\* a rejected self-subscription, POST, while other subscriptions exist
C8_Witness ==
    LET r == req[1] IN
    /\ SelfSubscribe(r)
    /\ r.method = "POST"
    /\ r.response.status = 400
    /\ \E row \in Rows : tables["Subscription"][row] = 1

(***************************************************************************)
(* Claims about the shopping list and the recipe update.                   *)
(***************************************************************************)
CartRecipes(user) == { r \in recipes : tables["ShoppingCart"][<<user, r>>] > 0 }

\* the (name, unit) groups of the ingredients of the recipes in the user's cart
CartGroups(user) ==
    { <<IngredientRow(row[2]).name, IngredientRow(row[2]).measurement_unit>> :
        row \in { x \in recipe_ingredients : x[1] \in CartRecipes(user) } }

RECURSIVE SumOfAmounts(_)
SumOfAmounts(rows) ==
    IF rows = {} THEN 0
    ELSE LET x == CHOOSE x \in rows : TRUE
         IN  x[3] + SumOfAmounts(rows \ {x})

\* the sum of the amounts of a group over the recipes in the user's cart,
\* each recipe once
CartTotal(user, g) ==
    SumOfAmounts({ row \in recipe_ingredients :
        /\ row[1] \in CartRecipes(user)
        /\ IngredientRow(row[2]).name = g[1]
        /\ IngredientRow(row[2]).measurement_unit = g[2] })

Downloaded(r) == r.pc = "done" /\ r.model = "RecipeIngredient" /\ r.method = "GET"

\* C9 (SpecCart): the shopping list of user U is the header line followed by
\* exactly one line per (name, unit) group of the recipes now in U's cart,
\* each with the sum of that ingredient's amounts over those recipes; other
\* users' carts and removed recipes add nothing; an empty cart gives the
\* header alone, with status 200.
C9_ShoppingList ==
    LET r == req[1]
        content == r.response.content IN
    Downloaded(r) =>
        /\ r.response.status = 200
        /\ Len(content) = 1 + Cardinality(CartGroups(r.user))
        /\ content[1] = Header
        /\ \A g \in CartGroups(r.user) :
              \E i \in 2..Len(content) :
                  content[i] = <<"-", g[1], g[2], CartTotal(r.user, g)>>
        /\ (CartRecipes(r.user) = {} => content = <<Header>>)

\* both recipes are in the user's cart and share an ingredient, whose line
\* carries the sum of the two amounts (2 + 1), while the other user's cart
\* holds a recipe too
C9_Witness ==
    LET r == req[1] IN
    /\ Downloaded(r)
    /\ CartRecipes(r.user) = {1, 2}
    /\ \E u \in Users \ {r.user} : CartRecipes(u) # {}
    /\ {<<1, 1, 2>>, <<2, 1, 1>>} \subseteq recipe_ingredients
    /\ \E i \in 2..Len(r.response.content) :
          r.response.content[i] = <<"-", "flour", "g", 3>>

Updated(r) == r.pc = "done" /\ r.model = "Recipe" /\ r.response.status = 200

\* C10 (SpecUpdate): after a successful update of recipe R with ingredient
\* list L and tag list T the (ingredient, amount) rows of R are exactly the
\* entries of L, one row per entry, and the tag rows of R are exactly T:
\* nothing of the previous lists is left.
C10_UpdateReplaces ==
    LET r == req[1]
        L == r.payload.ingredients
        T == r.payload.tags IN
    Updated(r) =>
        /\ { row \in recipe_ingredients : row[1] = r.pk }
              = { <<r.pk, L[i].id, L[i].amount>> : i \in 1..Len(L) }
        /\ Cardinality({ row \in recipe_ingredients : row[1] = r.pk }) = Len(L)
        /\ { row \in recipe_tags : row[1] = r.pk }
              = { <<r.pk, T[i]>> : i \in 1..Len(T) }
        /\ recipe_name[r.pk] = r.payload.name

\* the recipe that started with ingredient 3 (amount 1) and tag 1 now has
\* ingredient 2 (amount 2) and tag 2 only
C10_Witness ==
    LET r == req[1] IN
    /\ Updated(r)
    /\ r.pk = 1
    /\ r.payload.ingredients = <<[id |-> 2, amount |-> 2]>>
    /\ recipe_ingredients = {<<1, 2, 2>>}
    /\ recipe_tags = {<<1, 2>>}

(***************************************************************************)
(* Claims about failing and rejected recipe requests.                      *)
(***************************************************************************)
\* what is stored of recipe pk in a record of recipes, names, ingredient rows
\* and tag rows: the snapshot, or the database
Stored(db, pk) ==
    [exists |-> pk \in db.recipes,
     name |-> IF pk \in db.recipes THEN db.recipe_name[pk] ELSE "",
     ingredients |-> { row \in db.recipe_ingredients : row[1] = pk },
     tags |-> { row \in db.recipe_tags : row[1] = pk }]

Database ==
    [recipes |-> recipes, recipe_name |-> recipe_name,
     recipe_ingredients |-> recipe_ingredients, recipe_tags |-> recipe_tags]

\* an update that failed after its first write
FailedUpdate(r) ==
    /\ r.pc = "done" /\ r.model = "Recipe" /\ r.method = "PATCH"
    /\ r.response.status \notin {200, 400, 404}

\* C11 (SpecRecipe): an update of recipe R that fails after it has
\* started leaves R's name, tag rows and ingredient rows exactly as the
\* request found them; in particular R is not left with an empty or partial
\* ingredient list.
C11_UpdateAllOrNothing ==
    \A p \in Procs :
        FailedUpdate(req[p]) => Stored(Database, req[p].pk) = Stored(snap, req[p].pk)

\* a create or update request of a recipe, received and not yet forgotten
RecipeWrite(r) == r.pc # "idle" /\ r.model = "Recipe" /\ r.method \in {"POST", "PATCH"}

Rejected(r) == r.pc = "done" /\ r.response.status = 400

\* C12 (SpecRecipe): a create or update request whose payload has an empty
\* or missing ingredient or tag list, names an ingredient or a tag twice (in
\* whatever representation of the identifiers) or has an amount below 1 is
\* rejected before any write: a request that is not rejected has none of
\* these, and a rejected request has sent no writing statement and leaves
\* the recipes, ingredient rows and tag rows as it found them.
C12_RejectedBeforeWrite ==
    \A p \in Procs :
        LET r == req[p] IN
        RecipeWrite(r) =>
            /\ ~Rejected(r) /\ r.response.status # 404 => WellFormed(r.payload)
            /\ Rejected(r) =>
                  /\ \A i \in 1..Len(r.ops) : r.ops[i][2] = "get"
                  /\ Database = [recipes |-> snap.recipes,
                                 recipe_name |-> snap.recipe_name,
                                 recipe_ingredients |-> snap.recipe_ingredients,
                                 recipe_tags |-> snap.recipe_tags]

\* C14 (SpecRecipe): whatever create and update requests were served,
\* accepted or not, every stored recipe has an ingredient row, every amount
\* is at least 1, no ingredient has two rows, and the recipe has a tag.
\* Stated of the states in which no request is being executed (the states
\* inside an executing request are not counted against the claim).
C14_RecipeInvariant ==
    (\A p \in Procs : req[p].pc \in {"idle", "done"}) =>
        \A pk \in recipes :
            /\ Stored(Database, pk).ingredients # {}
            /\ \A row \in Stored(Database, pk).ingredients : row[3] >= 1
            /\ \A r1, r2 \in Stored(Database, pk).ingredients : r1[2] = r2[2] => r1 = r2
            /\ Stored(Database, pk).tags # {}

(***************************************************************************)
(* Claim about the short-link route, checked under SpecCodec.              *)
(***************************************************************************)
Redirected == response # NoResponse /\ response.status = 302

\* C13 (SpecCodec): redirect_short_link redirects only for a segment of 3
\* or more characters, all of 0-9a-z, that decodes to the id of an existing
\* recipe, and then to that recipe; every other segment (shorter than 3
\* characters, with a foreign character, or of no recipe) is answered not
\* found; the code get_link makes for an existing recipe redirects to it.
C13_RedirectOnlyForCodes ==
    /\ (short_code # NoCode /\ response # NoResponse) =>
            IF /\ Len(short_code) >= 3
               /\ ~HasForeignChar(short_code)
               /\ PositionalValue(short_code) \in recipes
            THEN response = [status |-> 302, location |-> PositionalValue(short_code),
                             detail |-> "redirect"]
            ELSE response = Http404
    /\ (Encoded /\ num \in recipes /\ response # NoResponse) =>
            Redirected /\ response.location = num

(***************************************************************************)
(* Claim about recipe deletion, checked under SpecDelete.                  *)
(***************************************************************************)
\* C15 (SpecDelete): in every reachable state no Favorite or ShoppingCart
\* row and no ingredient or tag row refers to a recipe that is not stored,
\* and the shopping list query of every user sums, for each (name, unit)
\* group, the amounts of the stored recipes in the user's cart only: a
\* deleted recipe contributes nothing.
C15_DeleteCascades ==
    /\ \A m \in {"Favorite", "ShoppingCart"}, u \in Users, pk \in RecipeIds :
            tables[m][<<u, pk>>] > 0 => pk \in recipes
    /\ \A row \in recipe_ingredients \cup recipe_tags : row[1] \in recipes
    /\ \A u \in Users :
            /\ { <<item.ingredient__name, item.ingredient__measurement_unit>> :
                    item \in Aggregate(u) } = CartGroups(u)
            /\ \A item \in Aggregate(u) :
                  item.total = CartTotal(u, <<item.ingredient__name,
                                              item.ingredient__measurement_unit>>)

\* recipe 1 was in the user's cart when the list held by client 1 was made
\* (flour 1 + 2, salt 2); client 2 has deleted recipe 1 since, and the
\* user's list is now that of recipe 2 alone
C15_Witness ==
    LET r == req[1] IN
    /\ Downloaded(r)
    /\ r.response.content \in
          { <<Header, <<"-", "flour", "g", 3>>, <<"-", "salt", "g", 2>>>>,
            <<Header, <<"-", "salt", "g", 2>>, <<"-", "flour", "g", 3>>>> }
    /\ req[2].pc = "done" /\ req[2].method = "DELETE" /\ req[2].pk = 1
    /\ req[2].response = NoContent
    /\ recipes = {2}
    /\ Aggregate(r.user) =
          { [ingredient__name |-> "flour", ingredient__measurement_unit |-> "g",
             total |-> 2] }

(***************************************************************************)
(* Claims about concurrent requests.                                       *)
(***************************************************************************)
\* C16 (SpecRel): however the statements of concurrent add and remove
\* requests on one <<user, target>> pair of one relation interleave, every
\* request that reaches add or remove ends Created (201), Conflict (400
\* with an errors body) or Removed (204), never in a server fault, and a
\* request answered Created or Removed has sent the statement that made it
\* so (the INSERT, the DELETE).
C16_StructuredResults ==
    \A p \in Procs :
        LET r == req[p] IN
        (r.pc = "done" /\ r.model \in Models /\ ReachesRelation(r)) =>
            /\ \/ r.method = "POST" /\ r.response.status = 201
               \/ r.method = "DELETE" /\ r.response = NoContent
               \/ IsConflict(r.response)
            /\ r.response.status = 201 => r.ops[Len(r.ops)] = Op(r.model, "insert")
            /\ r.response.status = 204 => r.ops[Len(r.ops)] = Op(r.model, "delete")

\* the ingredient rows an update of recipe pk with this payload writes
PayloadRows(pk, payload) ==
    { <<pk, payload.ingredients[i].id, payload.ingredients[i].amount>> :
        i \in 1..Len(payload.ingredients) }

\* C17 (SpecUpdateRace): however the statements of two concurrent updates
\* of recipe R with ingredient lists L1 and L2 interleave, both requests
\* complete without a storage error and the ingredient rows of R are then
\* exactly those of L1 or exactly those of L2: not a union or mixture of
\* the two, not empty.
C17_ConcurrentUpdates ==
    AllAnswered =>
        /\ \A p \in Procs : req[p].response.status = 200
        /\ \E p \in Procs :
              Stored(Database, 1).ingredients = PayloadRows(1, req[p].payload)

=============================================================================
